---- MODULE Spec2Model ----
(***************************************************************************)
(* BrainBridge backend: the Express handlers over the PostgreSQL tables.   *)
(*                                                                         *)
(* The state is the content of the tables (users, connections, blocks,     *)
(* messages, rooms, room_members, room_messages) with their SERIAL         *)
(* sequences, the handlers in flight, and the                              *)
(* last response sent.  A handler runs atomically between two awaits, and   *)
(* every `await pool.query(...)` is one atomic step of the database, so a  *)
(* handler with a read query followed by a write query is two steps, and   *)
(* another handler may run between them.                                   *)
(***************************************************************************)
EXTENDS Integers, FiniteSets, Sequences

VARIABLES users, userSeq, connections, connSeq, blocks, blockSeq,
          messages, msgSeq, rooms, roomSeq, room_members, memberSeq,
          room_messages, roomMsgSeq, req, last

vars == <<users, userSeq, connections, connSeq, blocks, blockSeq,
          messages, msgSeq, rooms, roomSeq, room_members, memberSeq,
          room_messages, roomMsgSeq, req, last>>

userVars == <<users, userSeq>>
connVars == <<connections, connSeq>>
blockVars == <<blocks, blockSeq>>
msgVars == <<messages, msgSeq>>
roomVars == <<rooms, roomSeq, room_members, memberSeq, room_messages, roomMsgSeq>>

(* ---------------------------- bounds ---------------------------------- *)

\* last value the users_id_seq sequence may hand out
MaxUserSeq == 3
\* last value the connections_id_seq sequence may hand out
MaxConnSeq == 2
\* last value the blocks_id_seq sequence may hand out
MaxBlockSeq == 2
\* last value the messages_id_seq sequence may hand out (conversations)
MaxMsgSeq == 2
\* last value the messages_id_seq sequence may hand out (block gate)
MaxGateMsgSeq == 1
\* last value the rooms_id_seq sequence may hand out
MaxRoomSeq == 1
\* last value the room_members_id_seq sequence may hand out
MaxMemberSeq == 2
\* last value the room_messages_id_seq sequence may hand out
MaxRoomMsgSeq == 1

\* handlers that may be in flight at the same time
Procs == {1, 2}
\* the email addresses a register request may carry
Emails == {"a@x.com", "b@x.com"}
\* the message bodies a message request may carry
Contents == {"hi"}

\* ids a token or a route parameter may name: the two users of
\* InitRegistered and an id that is no user
Ids == {1, 2, 3}
\* ids a /connect/accept/:id or /connect/reject/:id parameter may name
ConnIds == 1 .. MaxConnSeq
\* ids a /rooms/:roomId parameter may name
RoomParams == 1 .. MaxRoomSeq
\* the names a create-room request may carry; "" stands for a body with no
\* name
RoomNames == {"algebra", ""}

(* ---------------------------- helpers --------------------------------- *)

\* SELECT id FROM users: the ids of the stored users
UserIds == {u.id : u \in users}

\* A handler slot with no request in flight.
Idle == [pc |-> "idle", user |-> 0, arg |-> 0, email |-> "", content |-> "",
         seen |-> 0]

NoBody == <<>>

\* res.status(status).json(...): the response of a handler
Respond(op, user, arg, email, status, friends, chat) ==
    last' = [op |-> op, user |-> user, arg |-> arg, email |-> email,
             status |-> status, friends |-> friends, chat |-> chat]

\* authenticateToken: the token of a request carries the id of a stored user
\* (a token is signed by /login for a row of users, and no handler deletes
\* a user)
authenticateToken(u) == u \in UserIds

(* ---------------------------- initial state --------------------------- *)

Init ==
    /\ users = {}
    /\ userSeq = 0
    /\ connections = {}
    /\ connSeq = 0
    /\ blocks = {}
    /\ blockSeq = 0
    /\ messages = {}
    /\ msgSeq = 0
    /\ rooms = {}
    /\ roomSeq = 0
    /\ room_members = {}
    /\ memberSeq = 0
    /\ room_messages = {}
    /\ roomMsgSeq = 0
    /\ req = [p \in Procs |-> Idle]
    /\ last = [op |-> "none", user |-> 0, arg |-> 0, email |-> "",
               status |-> 0, friends |-> NoBody, chat |-> NoBody]

\* The state after alice and bob have registered, one after the other: Init
\* followed by RegisterCheck, RegisterInsert, RegisterCheck, RegisterInsert
\* (below).  The services that need users start here.
InitRegistered ==
    /\ users = {[id |-> 1, email |-> "a@x.com"], [id |-> 2, email |-> "b@x.com"]}
    /\ userSeq = 2
    /\ connections = {}
    /\ connSeq = 0
    /\ blocks = {}
    /\ blockSeq = 0
    /\ messages = {}
    /\ msgSeq = 0
    /\ rooms = {}
    /\ roomSeq = 0
    /\ room_members = {}
    /\ memberSeq = 0
    /\ room_messages = {}
    /\ roomMsgSeq = 0
    /\ req = [p \in Procs |-> Idle]
    /\ last = [op |-> "register", user |-> 0, arg |-> 0, email |-> "b@x.com",
               status |-> 201, friends |-> NoBody, chat |-> NoBody]

(* ---------------------------- POST /register -------------------------- *)

\* SELECT * FROM users WHERE email=$1
UsersByEmail(e) == {u \in users : u.email = e}

\* First step: the existence query; 400 when the email is taken.
RegisterCheck(p, e) ==
    /\ req[p].pc = "idle"
    /\ IF UsersByEmail(e) # {}
         THEN /\ Respond("register", 0, 0, e, 400, NoBody, NoBody)
              /\ UNCHANGED req
         ELSE /\ req' = [req EXCEPT ![p] = [Idle EXCEPT !.pc = "register_insert",
                                                       !.email = e]]
              /\ UNCHANGED last
    /\ UNCHANGED <<userVars, connVars, blockVars, msgVars, roomVars>>

\* The INSERT as it would run without the UNIQUE constraint on email.
InsertUserNoUnique(e) ==
    /\ users' = users \cup {[id |-> userSeq + 1, email |-> e]}
    /\ Respond("register", 0, 0, e, 201, NoBody, NoBody)

\* INSERT INTO users (name,email,password): email is UNIQUE, so a duplicate
\* raises and the catch answers 500.
InsertUser(e) ==
    IF UsersByEmail(e) # {}
      THEN /\ UNCHANGED users
           /\ Respond("register", 0, 0, e, 500, NoBody, NoBody)
      ELSE /\ users' = users \cup {[id |-> userSeq + 1, email |-> e]}
           /\ Respond("register", 0, 0, e, 201, NoBody, NoBody)

\* Second step: the INSERT; the sequence value drawn for the row is lost
\* when the insert fails.
RegisterInsert(p) ==
    /\ req[p].pc = "register_insert"
    /\ userSeq' = userSeq + 1
    /\ InsertUser(req[p].email)
    /\ req' = [req EXCEPT ![p] = Idle]
    /\ UNCHANGED <<connVars, blockVars, msgVars, roomVars>>

(* ---------------------------- POST /connect/:userId ------------------- *)

\* The existence query with its two parameters swapped.
ExistingReversed(senderId, receiverId) ==
    {c \in connections : c.sender_id = receiverId /\ c.receiver_id = senderId}

\* SELECT * FROM connections WHERE sender_id=$1 AND receiver_id=$2
ExistingConnections(senderId, receiverId) ==
    {c \in connections : c.sender_id = senderId /\ c.receiver_id = receiverId}

\* The handler without its self check.
IsSelfNever(senderId, receiverId) == FALSE

\* senderId === receiverId
IsSelf(senderId, receiverId) == senderId = receiverId

\* First step: the self check and the existence query.
ConnectCheck(p, senderId, receiverId) ==
    /\ req[p].pc = "idle"
    /\ authenticateToken(senderId)
    /\ IF IsSelf(senderId, receiverId)
         THEN /\ Respond("connect", senderId, receiverId, "", 400, NoBody, NoBody)
              /\ UNCHANGED req
         ELSE IF ExistingConnections(senderId, receiverId) # {}
         THEN /\ Respond("connect", senderId, receiverId, "", 400, NoBody, NoBody)
              /\ UNCHANGED req
         ELSE /\ req' = [req EXCEPT ![p] = [Idle EXCEPT !.pc = "connect_insert",
                                                       !.user = senderId,
                                                       !.arg = receiverId]]
              /\ UNCHANGED last
    /\ UNCHANGED <<userVars, connVars, blockVars, msgVars, roomVars>>

\* The INSERT as it would run under a UNIQUE(sender_id, receiver_id)
\* constraint, which the table does not have.
InsertConnectionUnique(senderId, receiverId) ==
    IF receiverId \in UserIds /\ ExistingConnections(senderId, receiverId) = {}
      THEN /\ connections' = connections \cup
                 {[id |-> connSeq + 1, sender_id |-> senderId,
                   receiver_id |-> receiverId, status |-> "pending"]}
           /\ Respond("connect", senderId, receiverId, "", 200, NoBody, NoBody)
      ELSE /\ UNCHANGED connections
           /\ Respond("connect", senderId, receiverId, "", 500, NoBody, NoBody)

\* INSERT INTO connections (sender_id, receiver_id): the table has no
\* uniqueness constraint; receiver_id REFERENCES users(id), so an insert for
\* an id that is no user raises (500).  status defaults to 'pending'.
InsertConnection(senderId, receiverId) ==
    IF receiverId \in UserIds
      THEN /\ connections' = connections \cup
                 {[id |-> connSeq + 1, sender_id |-> senderId,
                   receiver_id |-> receiverId, status |-> "pending"]}
           /\ Respond("connect", senderId, receiverId, "", 200, NoBody, NoBody)
      ELSE /\ UNCHANGED connections
           /\ Respond("connect", senderId, receiverId, "", 500, NoBody, NoBody)

\* Second step: the INSERT.
ConnectInsert(p) ==
    /\ req[p].pc = "connect_insert"
    /\ connSeq' = connSeq + 1
    /\ InsertConnection(req[p].user, req[p].arg)
    /\ req' = [req EXCEPT ![p] = Idle]
    /\ UNCHANGED <<userVars, blockVars, msgVars, roomVars>>

(* ---------------------------- PUT /connect/accept/:id ----------------- *)

\* The check without its receiver_id condition.
ReceiverCheckByIdOnly(connectionId, userId) ==
    {c \in connections : c.id = connectionId}

\* SELECT * FROM connections WHERE id=$1 AND receiver_id=$2
ReceiverCheck(connectionId, userId) ==
    {c \in connections : c.id = connectionId /\ c.receiver_id = userId}

AcceptCheck(p, connectionId, userId) ==
    /\ req[p].pc = "idle"
    /\ authenticateToken(userId)
    /\ IF ReceiverCheck(connectionId, userId) = {}
         THEN /\ Respond("accept", userId, connectionId, "", 403, NoBody, NoBody)
              /\ UNCHANGED req
         ELSE /\ req' = [req EXCEPT ![p] = [Idle EXCEPT !.pc = "accept_update",
                                                       !.user = userId,
                                                       !.arg = connectionId]]
              /\ UNCHANGED last
    /\ UNCHANGED <<userVars, connVars, blockVars, msgVars, roomVars>>

\* UPDATE connections SET status='accepted' WHERE id=$1
UpdateAccepted(connectionId) ==
    {IF c.id = connectionId THEN [c EXCEPT !.status = "accepted"] ELSE c :
        c \in connections}

AcceptUpdate(p) ==
    /\ req[p].pc = "accept_update"
    /\ connections' = UpdateAccepted(req[p].arg)
    /\ Respond("accept", req[p].user, req[p].arg, "", 200, NoBody, NoBody)
    /\ req' = [req EXCEPT ![p] = Idle]
    /\ UNCHANGED <<userVars, connSeq, blockVars, msgVars, roomVars>>

(* ---------------------------- DELETE /connect/reject/:id -------------- *)

RejectCheck(p, connectionId, userId) ==
    /\ req[p].pc = "idle"
    /\ authenticateToken(userId)
    /\ IF ReceiverCheck(connectionId, userId) = {}
         THEN /\ Respond("reject", userId, connectionId, "", 403, NoBody, NoBody)
              /\ UNCHANGED req
         ELSE /\ req' = [req EXCEPT ![p] = [Idle EXCEPT !.pc = "reject_delete",
                                                       !.user = userId,
                                                       !.arg = connectionId]]
              /\ UNCHANGED last
    /\ UNCHANGED <<userVars, connVars, blockVars, msgVars, roomVars>>

\* DELETE FROM connections WHERE id=$1
DeleteConnection(connectionId) ==
    {c \in connections : c.id # connectionId}

RejectDelete(p) ==
    /\ req[p].pc = "reject_delete"
    /\ connections' = DeleteConnection(req[p].arg)
    /\ Respond("reject", req[p].user, req[p].arg, "", 200, NoBody, NoBody)
    /\ req' = [req EXCEPT ![p] = Idle]
    /\ UNCHANGED <<userVars, connSeq, blockVars, msgVars, roomVars>>

(* ---------------------------- GET /friends ---------------------------- *)

\* The join with only its first direction.
FriendJoinSenderOnly(userId, u) ==
    {c \in connections :
        /\ c.status = "accepted"
        /\ c.sender_id = userId /\ c.receiver_id = u.id}

\* The rows of connections JOIN users of the friends query for one user u:
\* the accepted connections that join userId with u, in either direction.
FriendJoin(userId, u) ==
    {c \in connections :
        /\ c.status = "accepted"
        /\ \/ c.sender_id = userId /\ c.receiver_id = u.id
           \/ c.receiver_id = userId /\ c.sender_id = u.id}

\* The result of the friends query, as a bag: user id |-> number of rows.
listFriends(userId) ==
    LET ids == {u.id : u \in {v \in users : FriendJoin(userId, v) # {}}}
    IN  [i \in ids |->
            Cardinality(UNION {FriendJoin(userId, u) : u \in {v \in users : v.id = i}})]

Friends(p, userId) ==
    /\ req[p].pc = "idle"
    /\ authenticateToken(userId)
    /\ Respond("friends", userId, 0, "", 200, listFriends(userId), NoBody)
    /\ UNCHANGED <<userVars, connVars, blockVars, msgVars, req, roomVars>>

(* ---------------------------- POST /block/:userId -------------------- *)

\* SELECT * FROM blocks WHERE blocker_id=$1 AND blocked_id=$2: the row the
\* UNIQUE(blocker_id, blocked_id) index finds for the pair
BlockRows(blockerId, blockedId) ==
    {b \in blocks : b.blocker_id = blockerId /\ b.blocked_id = blockedId}

\* The INSERT as it would run without the UNIQUE constraint: ON CONFLICT
\* never applies.
InsertBlockNoUnique(blockerId, blockedId) ==
    IF blockedId \notin UserIds
      THEN /\ UNCHANGED blocks
           /\ Respond("block", blockerId, blockedId, "", 500, NoBody, NoBody)
      ELSE /\ blocks' = blocks \cup {[id |-> blockSeq + 1, blocker_id |-> blockerId,
                                      blocked_id |-> blockedId]}
           /\ Respond("block", blockerId, blockedId, "", 200, NoBody, NoBody)

\* INSERT INTO blocks (blocker_id, blocked_id) VALUES ($1,$2) ON CONFLICT DO
\* NOTHING: blocked_id REFERENCES users(id), so an id that is no user raises
\* (500); a row the UNIQUE index already holds makes the insert a no-op.
InsertBlock(blockerId, blockedId) ==
    IF blockedId \notin UserIds
      THEN /\ UNCHANGED blocks
           /\ Respond("block", blockerId, blockedId, "", 500, NoBody, NoBody)
      ELSE IF BlockRows(blockerId, blockedId) # {}
      THEN /\ UNCHANGED blocks
           /\ Respond("block", blockerId, blockedId, "", 200, NoBody, NoBody)
      ELSE /\ blocks' = blocks \cup {[id |-> blockSeq + 1, blocker_id |-> blockerId,
                                      blocked_id |-> blockedId]}
           /\ Respond("block", blockerId, blockedId, "", 200, NoBody, NoBody)

\* The handler: the self check, then the single INSERT statement.
Block(p, blockerId, blockedId) ==
    /\ req[p].pc = "idle"
    /\ authenticateToken(blockerId)
    /\ IF blockerId = blockedId
         THEN /\ Respond("block", blockerId, blockedId, "", 400, NoBody, NoBody)
              /\ UNCHANGED blockVars
         ELSE /\ blockSeq' = blockSeq + 1
              /\ InsertBlock(blockerId, blockedId)
    /\ UNCHANGED <<userVars, connVars, msgVars, req, roomVars>>

(* ---------------------------- POST /message/:userId ------------------- *)

\* The block query with only the direction receiver blocks sender.
BlockCheckOneWay(senderId, receiverId) ==
    {b \in blocks : b.blocker_id = receiverId /\ b.blocked_id = senderId}

\* SELECT * FROM blocks WHERE (blocker_id=$1 AND blocked_id=$2)
\*                         OR (blocker_id=$2 AND blocked_id=$1)
blockCheck(senderId, receiverId) ==
    {b \in blocks :
        \/ b.blocker_id = senderId /\ b.blocked_id = receiverId
        \/ b.blocker_id = receiverId /\ b.blocked_id = senderId}

\* First step: the block query; 403 when a block row exists.
MessageCheck(p, senderId, receiverId, content) ==
    /\ req[p].pc = "idle"
    /\ authenticateToken(senderId)
    /\ IF blockCheck(senderId, receiverId) # {}
         THEN /\ Respond("message", senderId, receiverId, "", 403, NoBody, NoBody)
              /\ UNCHANGED req
         ELSE /\ req' = [req EXCEPT ![p] = [Idle EXCEPT !.pc = "message_insert",
                                                       !.user = senderId,
                                                       !.arg = receiverId,
                                                       !.content = content,
                                                       !.seen = msgSeq]]
              /\ UNCHANGED last
    /\ UNCHANGED <<userVars, connVars, blockVars, msgVars, roomVars>>

\* The latest created_at of the stored messages (0 when there is none).
LatestCreatedAt ==
    IF messages = {} THEN 0
    ELSE CHOOSE t \in {m.created_at : m \in messages} :
            \A m \in messages : m.created_at <= t

\* created_at TIMESTAMP DEFAULT CURRENT_TIMESTAMP: the clock readings an
\* INSERT may store, up to the order of the readings.  The clock does not
\* run backwards, and the round trip between the two queries of a handler
\* takes longer than its resolution: the reading is later than that of every
\* message stored before the handler's first query (those with id <= seen),
\* and may equal the reading of a message inserted since.
CurrentTimestamps(seen) ==
    {LatestCreatedAt + 1} \cup
    {t \in {LatestCreatedAt} :
        /\ \E m \in messages : m.id > seen /\ m.created_at = t
        /\ \A m \in messages : m.id <= seen => m.created_at < t}

\* Second step: INSERT INTO messages (sender_id, receiver_id, content);
\* receiver_id REFERENCES users(id).
MessageInsert(p) ==
    /\ req[p].pc = "message_insert"
    /\ msgSeq' = msgSeq + 1
    /\ IF req[p].arg \in UserIds
         THEN /\ \E t \in CurrentTimestamps(req[p].seen) :
                    messages' = messages \cup
                       {[id |-> msgSeq + 1, sender_id |-> req[p].user,
                         receiver_id |-> req[p].arg, content |-> req[p].content,
                         created_at |-> t]}
              /\ Respond("message", req[p].user, req[p].arg, "", 200, NoBody, NoBody)
         ELSE /\ UNCHANGED messages
              /\ Respond("message", req[p].user, req[p].arg, "", 500, NoBody, NoBody)
    /\ req' = [req EXCEPT ![p] = Idle]
    /\ UNCHANGED <<userVars, connVars, blockVars, roomVars>>

(* ---------------------------- GET /chat/:userId ----------------------- *)

Range(s) == {s[i] : i \in DOMAIN s}

\* WHERE (sender_id=$1 AND receiver_id=$2) OR (sender_id=$2 AND receiver_id=$1)
ChatRows(userA, userB) ==
    {m \in messages :
        \/ m.sender_id = userA /\ m.receiver_id = userB
        \/ m.sender_id = userB /\ m.receiver_id = userA}

\* The sequences that list every row of rows once.
Listings(rows) ==
    {s \in [1 .. Cardinality(rows) -> rows] : Range(s) = rows}

\* ORDER BY created_at ASC: rows with equal created_at come in any order.
OrderedByCreatedAt(s) ==
    \A i \in DOMAIN s, j \in DOMAIN s : i < j => s[i].created_at <= s[j].created_at

\* The results the chat query may return.
listConversation(userA, userB) ==
    {s \in Listings(ChatRows(userA, userB)) : OrderedByCreatedAt(s)}

Chat(p, userId, otherId) ==
    /\ req[p].pc = "idle"
    /\ authenticateToken(userId)
    /\ \E rows \in listConversation(userId, otherId) :
          Respond("chat", userId, otherId, "", 200, NoBody, rows)
    /\ UNCHANGED <<userVars, connVars, blockVars, msgVars, req, roomVars>>

(* ---------------------------- POST /rooms --------------------------- *)

\* SELECT id FROM rooms: the ids of the stored rooms
RoomIds == {r.id : r \in rooms}

\* The handler: the single INSERT statement.  name is NOT NULL, so a body
\* with no name raises (500); the sequence value is drawn either way.
CreateRoom(p, userId, name) ==
    /\ req[p].pc = "idle"
    /\ authenticateToken(userId)
    /\ roomSeq' = roomSeq + 1
    /\ IF name = ""
         THEN /\ UNCHANGED rooms
              /\ Respond("room", userId, 0, "", 500, NoBody, NoBody)
         ELSE /\ rooms' = rooms \cup {[id |-> roomSeq + 1, name |-> name,
                                       created_by |-> userId]}
              /\ Respond("room", userId, roomSeq + 1, "", 200, NoBody, NoBody)
    /\ UNCHANGED <<userVars, connVars, blockVars, msgVars, room_members,
                   memberSeq, room_messages, roomMsgSeq, req>>

(* ---------------------------- POST /rooms/:roomId/join ---------------- *)

\* The rows of room_members for the pair: what the UNIQUE(room_id, user_id)
\* index finds
MemberRows(roomId, userId) ==
    {m \in room_members : m.room_id = roomId /\ m.user_id = userId}

\* INSERT INTO room_members (room_id, user_id) VALUES ($1,$2) ON CONFLICT DO
\* NOTHING: room_id REFERENCES rooms(id), so an id that is no room raises
\* (500); a row the UNIQUE index already holds makes the insert a no-op.
InsertMember(roomId, userId) ==
    IF roomId \notin RoomIds
      THEN /\ UNCHANGED room_members
           /\ Respond("join", userId, roomId, "", 500, NoBody, NoBody)
      ELSE IF MemberRows(roomId, userId) # {}
      THEN /\ UNCHANGED room_members
           /\ Respond("join", userId, roomId, "", 200, NoBody, NoBody)
      ELSE /\ room_members' = room_members \cup
                 {[id |-> memberSeq + 1, room_id |-> roomId, user_id |-> userId]}
           /\ Respond("join", userId, roomId, "", 200, NoBody, NoBody)

\* The handler: the single INSERT statement.
JoinRoom(p, roomId, userId) ==
    /\ req[p].pc = "idle"
    /\ authenticateToken(userId)
    /\ memberSeq' = memberSeq + 1
    /\ InsertMember(roomId, userId)
    /\ UNCHANGED <<userVars, connVars, blockVars, msgVars, rooms, roomSeq,
                   room_messages, roomMsgSeq, req>>

(* ---------------------------- POST /rooms/:roomId/message ------------- *)

\* The member query without its user_id condition.
MemberCheckAnyUser(roomId, userId) ==
    {m \in room_members : m.room_id = roomId}

\* SELECT * FROM room_members WHERE room_id=$1 AND user_id=$2
memberCheck(roomId, userId) ==
    {m \in room_members : m.room_id = roomId /\ m.user_id = userId}

\* First step: the member query; 403 when the caller has no member row.
RoomMessageCheck(p, roomId, userId, content) ==
    /\ req[p].pc = "idle"
    /\ authenticateToken(userId)
    /\ IF memberCheck(roomId, userId) = {}
         THEN /\ Respond("room_message", userId, roomId, "", 403, NoBody, NoBody)
              /\ UNCHANGED req
         ELSE /\ req' = [req EXCEPT ![p] = [Idle EXCEPT !.pc = "room_message_insert",
                                                       !.user = userId,
                                                       !.arg = roomId,
                                                       !.content = content]]
              /\ UNCHANGED last
    /\ UNCHANGED <<userVars, connVars, blockVars, msgVars, roomVars>>

\* Second step: INSERT INTO room_messages (room_id, sender_id, content);
\* room_id REFERENCES rooms(id).  (created_at is left out: no handler
\* modelled here reads it.)
RoomMessageInsert(p) ==
    /\ req[p].pc = "room_message_insert"
    /\ roomMsgSeq' = roomMsgSeq + 1
    /\ IF req[p].arg \in RoomIds
         THEN /\ room_messages' = room_messages \cup
                    {[id |-> roomMsgSeq + 1, room_id |-> req[p].arg,
                      sender_id |-> req[p].user, content |-> req[p].content]}
              /\ Respond("room_message", req[p].user, req[p].arg, "", 200,
                         NoBody, NoBody)
         ELSE /\ UNCHANGED room_messages
              /\ Respond("room_message", req[p].user, req[p].arg, "", 500,
                         NoBody, NoBody)
    /\ req' = [req EXCEPT ![p] = Idle]
    /\ UNCHANGED <<userVars, connVars, blockVars, msgVars, rooms, roomSeq,
                   room_members, memberSeq>>

(* ---------------------------- specifications -------------------------- *)

\* The sequences are unbounded in the database; every specification stops
\* them at its bounds.

\* No other handler is in flight: the handlers run one at a time.
Quiet(p) == \A q \in Procs \ {p} : req[q].pc = "idle"

\* Registration, handlers interleaved at their awaits.
NextUsers ==
    \E p \in Procs :
        \/ \E e \in Emails : RegisterCheck(p, e)
        \/ userSeq < MaxUserSeq /\ RegisterInsert(p)
SpecUsers == Init /\ [][NextUsers]_vars

\* The connection service, handlers interleaved at their awaits.
NextConn ==
    \E p \in Procs :
        \/ \E s \in Ids, r \in Ids : ConnectCheck(p, s, r)
        \/ connSeq < MaxConnSeq /\ ConnectInsert(p)
        \/ \E c \in ConnIds, u \in Ids : AcceptCheck(p, c, u)
        \/ AcceptUpdate(p)
        \/ \E c \in ConnIds, u \in Ids : RejectCheck(p, c, u)
        \/ RejectDelete(p)
        \/ \E u \in Ids : Friends(p, u)
SpecConn == InitRegistered /\ [][NextConn]_vars

\* The connection service, one handler at a time.
NextConnSeq ==
    \E p \in Procs :
        \/ Quiet(p) /\ \E s \in Ids, r \in Ids : ConnectCheck(p, s, r)
        \/ Quiet(p) /\ connSeq < MaxConnSeq /\ ConnectInsert(p)
        \/ Quiet(p) /\ \E c \in ConnIds, u \in Ids : AcceptCheck(p, c, u)
        \/ Quiet(p) /\ AcceptUpdate(p)
        \/ Quiet(p) /\ \E c \in ConnIds, u \in Ids : RejectCheck(p, c, u)
        \/ Quiet(p) /\ RejectDelete(p)
        \/ Quiet(p) /\ \E u \in Ids : Friends(p, u)
SpecConnSeq == InitRegistered /\ [][NextConnSeq]_vars

\* The block gate of the messaging service: block and message handlers,
\* interleaved at their awaits.
NextGate ==
    \E p \in Procs :
        \/ blockSeq < MaxBlockSeq /\ \E a \in Ids, b \in Ids : Block(p, a, b)
        \/ \E a \in Ids, b \in Ids, c \in Contents : MessageCheck(p, a, b, c)
        \/ msgSeq < MaxGateMsgSeq /\ MessageInsert(p)
SpecGate == InitRegistered /\ [][NextGate]_vars

\* The conversations of the messaging service: message and chat handlers,
\* interleaved at their awaits.
NextChat ==
    \E p \in Procs :
        \/ \E a \in Ids, b \in Ids, c \in Contents : MessageCheck(p, a, b, c)
        \/ msgSeq < MaxMsgSeq /\ MessageInsert(p)
        \/ \E a \in Ids, b \in Ids : Chat(p, a, b)
SpecChat == InitRegistered /\ [][NextChat]_vars

\* The rooms: create, join and room-message handlers, interleaved at their
\* awaits.
NextRooms ==
    \E p \in Procs :
        \/ roomSeq < MaxRoomSeq /\ \E u \in Ids, n \in RoomNames : CreateRoom(p, u, n)
        \/ memberSeq < MaxMemberSeq /\ \E r \in RoomParams, u \in Ids : JoinRoom(p, r, u)
        \/ \E r \in RoomParams, u \in Ids, c \in Contents : RoomMessageCheck(p, r, u, c)
        \/ roomMsgSeq < MaxRoomMsgSeq /\ RoomMessageInsert(p)
SpecRooms == InitRegistered /\ [][NextRooms]_vars

\* Every handler of the service, from the empty tables.
Next ==
    \E p \in Procs :
        \/ \E e \in Emails : RegisterCheck(p, e)
        \/ userSeq < MaxUserSeq /\ RegisterInsert(p)
        \/ \E s \in Ids, r \in Ids : ConnectCheck(p, s, r)
        \/ connSeq < MaxConnSeq /\ ConnectInsert(p)
        \/ \E c \in ConnIds, u \in Ids : AcceptCheck(p, c, u)
        \/ AcceptUpdate(p)
        \/ \E c \in ConnIds, u \in Ids : RejectCheck(p, c, u)
        \/ RejectDelete(p)
        \/ \E u \in Ids : Friends(p, u)
        \/ blockSeq < MaxBlockSeq /\ \E a \in Ids, b \in Ids : Block(p, a, b)
        \/ \E a \in Ids, b \in Ids, c \in Contents : MessageCheck(p, a, b, c)
        \/ msgSeq < MaxMsgSeq /\ MessageInsert(p)
        \/ \E a \in Ids, b \in Ids : Chat(p, a, b)
        \/ roomSeq < MaxRoomSeq /\ \E u \in Ids, n \in RoomNames : CreateRoom(p, u, n)
        \/ memberSeq < MaxMemberSeq /\ \E r \in RoomParams, u \in Ids : JoinRoom(p, r, u)
        \/ \E r \in RoomParams, u \in Ids, c \in Contents : RoomMessageCheck(p, r, u, c)
        \/ roomMsgSeq < MaxRoomMsgSeq /\ RoomMessageInsert(p)
Spec == Init /\ [][Next]_vars

(* ---------------------------- connection claims ----------------------- *)

\* The pending or accepted requests between a and b, in either direction.
ActiveBetween(a, b) ==
    {c \in connections :
        /\ c.status \in {"pending", "accepted"}
        /\ \/ c.sender_id = a /\ c.receiver_id = b
           \/ c.sender_id = b /\ c.receiver_id = a}

\* C1: with the handlers run one at a time, the connections table holds at
\* most one pending-or-accepted request for every unordered pair {a, b} of
\* distinct identities.
C1_OneActivePerUnorderedPair ==
    \A a \in Ids, b \in Ids :
        a # b => Cardinality(ActiveBetween(a, b)) <= 1

\* C2: a request with status accepted is never taken out of that state: every
\* step keeps every accepted row, with status accepted.
C2_AcceptedIsTerminal ==
    [][\A c \in connections : c.status = "accepted" => c \in connections']_vars

\* u is not the receiver of request c (also when no request c exists).
NotReceiver(c, u) == \A x \in connections : x.id = c => x.receiver_id # u

\* C3: acceptRequest(c, u) and rejectRequest(c, u) answer 403 whenever u is
\* not the receiver of request c, also when there is no request c, and then
\* the handler ends and leaves the connections table unchanged.
C3_NonReceiverForbidden ==
    [][\A p \in Procs, c \in ConnIds, u \in Ids :
          (NotReceiver(c, u) /\ (AcceptCheck(p, c, u) \/ RejectCheck(p, c, u)))
          => /\ last'.status = 403
             /\ last'.op \in {"accept", "reject"}
             /\ last'.user = u
             /\ last'.arg = c
             /\ req'[p].pc = "idle"
             /\ connections' = connections]_vars

\* The sender of an existing request tried to accept it and got 403.
C3_Witness ==
    /\ last.op = "accept"
    /\ last.status = 403
    /\ \E c \in connections : c.id = last.arg /\ c.sender_id = last.user

\* C5: sendRequest(a, a) answers 400 and creates no row, and every row of
\* connections has a sender different from its receiver.
C5_NoSelfRequest ==
    [][/\ \A p \in Procs, a \in Ids :
             ConnectCheck(p, a, a)
             => /\ last'.op = "connect"
                /\ last'.status = 400
                /\ last'.user = a
                /\ last'.arg = a
                /\ req'[p].pc = "idle"
                /\ connections' = connections
       /\ \A c \in connections' : c.sender_id # c.receiver_id]_vars

\* A user asked to connect with themselves and got 400, with requests stored.
C5_Witness ==
    /\ last.op = "connect"
    /\ last.status = 400
    /\ last.user = last.arg
    /\ connections # {}

\* C6: when a pending request a->b exists, a sendRequest(a, b) answers 400
\* and leaves the connections table unchanged.
C6_DuplicateConflict ==
    [][\A p \in Procs, a \in Ids, b \in Ids :
          (/\ \E c \in connections :
                 c.sender_id = a /\ c.receiver_id = b /\ c.status = "pending"
           /\ ConnectCheck(p, a, b))
          => /\ last'.op = "connect"
             /\ last'.status = 400
             /\ last'.user = a
             /\ last'.arg = b
             /\ req'[p].pc = "idle"
             /\ connections' = connections]_vars

\* A second request for a pair with a pending request got 400.
C6_Witness ==
    /\ last.op = "connect"
    /\ last.status = 400
    /\ last.user # last.arg
    /\ \E c \in connections :
          /\ c.sender_id = last.user
          /\ c.receiver_id = last.arg
          /\ c.status = "pending"

\* C7: for every accepted request between a and b, listFriends(a) contains b
\* and listFriends(b) contains a; and listFriends(u) contains only identities
\* joined with u by an accepted request.
C7_FriendsSymmetric ==
    /\ \A c \in connections :
          c.status = "accepted"
          => /\ c.receiver_id \in DOMAIN listFriends(c.sender_id)
             /\ c.sender_id \in DOMAIN listFriends(c.receiver_id)
    /\ \A u \in Ids, x \in Ids :
          x \in DOMAIN listFriends(u)
          => \E c \in connections :
                /\ c.status = "accepted"
                /\ \/ c.sender_id = u /\ c.receiver_id = x
                   \/ c.sender_id = x /\ c.receiver_id = u

\* The receiver of an accepted request listed friends and got the sender,
\* and the sender is still in the list the query returns now.
C7_Witness ==
    /\ last.op = "friends"
    /\ \E c \in connections :
          /\ c.status = "accepted"
          /\ c.receiver_id = last.user
          /\ c.sender_id \in DOMAIN last.friends
          /\ c.sender_id \in DOMAIN listFriends(last.user)

\* C8: the insert of a sendRequest(a, b) that has passed its existence check
\* succeeds and adds a row for (a, b) whatever the table holds by then, so two
\* handlers that both passed the check both answer 200 and leave two rows.
C8_CheckThenInsertRace ==
    [][\A p \in Procs, a \in Ids, b \in Ids :
          (/\ req[p].pc = "connect_insert"
           /\ req[p].user = a
           /\ req[p].arg = b
           /\ b \in UserIds
           /\ ConnectInsert(p))
          => /\ last'.op = "connect"
             /\ last'.status = 200
             /\ last'.user = a
             /\ last'.arg = b
             /\ Cardinality(ExistingConnections(a, b)')
                  = Cardinality(ExistingConnections(a, b)) + 1
             /\ \A q \in Procs \ {p} : req'[q] = req[q]]_vars

\* Two rows for the same ordered pair, the second insert answered 200.
C8_Witness ==
    /\ last.op = "connect"
    /\ last.status = 200
    /\ \E c \in connections, d \in connections :
          /\ c.id # d.id
          /\ c.sender_id = last.user /\ c.receiver_id = last.arg
          /\ d.sender_id = last.user /\ d.receiver_id = last.arg
    /\ \A p \in Procs : req[p].pc = "idle"

(* ---------------------------- messaging claims ------------------------ *)

\* A block row exists between a and b, in either direction (so isBlocked(a, b)
\* and isBlocked(b, a) are the same).
isBlocked(a, b) ==
    \E x \in blocks :
        \/ x.blocker_id = a /\ x.blocked_id = b
        \/ x.blocker_id = b /\ x.blocked_id = a

\* C4: when a block row exists between a and b in either direction, both
\* sendMessage(a, b, _) and sendMessage(b, a, _) answer 403, the handler
\* ends and no message row is added.
C4_BlockedPairForbidden ==
    [][\A p \in Procs, a \in Ids, b \in Ids, c \in Contents :
          (isBlocked(a, b) /\ MessageCheck(p, a, b, c))
          => /\ last'.op = "message"
             /\ last'.status = 403
             /\ last'.user = a
             /\ last'.arg = b
             /\ req'[p].pc = "idle"
             /\ messages' = messages]_vars

\* The blocker tried to message the user they blocked and got 403.
C4_Witness ==
    /\ last.op = "message"
    /\ last.status = 403
    /\ \E x \in blocks : x.blocker_id = last.user /\ x.blocked_id = last.arg
    /\ ~ \E x \in blocks : x.blocker_id = last.arg /\ x.blocked_id = last.user

\* C9: block(a, a) answers 400 and inserts nothing; block(a, b) of a user b
\* different from a answers 200 and leaves exactly one row for (a, b),
\* changing nothing when the row was there already; and the blocks table
\* never holds two rows for one ordered pair.
C9_BlockIdempotentUnique ==
    [][/\ \A p \in Procs, a \in Ids :
             Block(p, a, a)
             => /\ last'.op = "block"
                /\ last'.status = 400
                /\ blocks' = blocks
       /\ \A p \in Procs, a \in Ids, b \in Ids :
             (a # b /\ b \in UserIds /\ Block(p, a, b))
             => /\ last'.op = "block"
                /\ last'.status = 200
                /\ Cardinality(BlockRows(a, b)') = 1
                /\ BlockRows(a, b) # {} => blocks' = blocks
                /\ blocks \subseteq blocks'
       /\ \A x \in blocks', y \in blocks' :
             (x.blocker_id = y.blocker_id /\ x.blocked_id = y.blocked_id)
             => x = y]_vars

\* A block of a pair whose row was inserted by an earlier call answered 200.
C9_Witness ==
    /\ last.op = "block"
    /\ last.status = 200
    /\ \E x \in blocks :
          /\ x.blocker_id = last.user
          /\ x.blocked_id = last.arg
          /\ x.id < blockSeq

\* C10: after a successful sendMessage(a, b, c) the message is in
\* listConversation(a, b) and listConversation(b, a); the two calls return the
\* same sequence, which holds exactly the messages between a and b in
\* ascending creation order; and no step modifies or removes a message.
C10_ConversationSameSequence ==
    [][/\ \A p \in Procs, a \in Ids, b \in Ids :
             (/\ req[p].pc = "message_insert"
              /\ req[p].user = a
              /\ req[p].arg = b
              /\ b \in UserIds
              /\ MessageInsert(p))
             => \E m \in messages' \ messages :
                   /\ m.sender_id = a
                   /\ m.receiver_id = b
                   /\ \A s \in listConversation(a, b)' \cup listConversation(b, a)' :
                         m \in Range(s)
       /\ \A a \in Ids, b \in Ids :
             \A s \in listConversation(a, b)', t \in listConversation(b, a)' :
                /\ a # b => s = t
                /\ Range(s) = ChatRows(a, b)'
                /\ OrderedByCreatedAt(s)
       /\ messages \subseteq messages']_vars

(* ---------------------------- concurrency claims -------------------- *)

\* C11: whenever acceptRequest(id, u) answers 200, the request id is in the
\* connections table with status accepted right after the handler's update,
\* also when a rejectRequest(id, u) ran between the handler's receiver check
\* and its update.
C11_AcceptSuccessLeavesAccepted ==
    [][\A p \in Procs, c \in ConnIds :
          (/\ req[p].pc = "accept_update"
           /\ req[p].arg = c
           /\ AcceptUpdate(p)
           /\ last'.status = 200)
          => \E x \in connections' : x.id = c /\ x.status = "accepted"]_vars

\* C12: no two rows of users share an email, also when two register calls
\* with the same email both pass the existence check before either inserts:
\* the insert that finds the email free adds one row and answers 201, the
\* insert that finds it taken fails (500) and adds no row.
C12_UniqueEmailUnderRace ==
    [][/\ \A u \in users', v \in users' : u.email = v.email => u = v
       /\ \A p \in Procs, e \in Emails :
             (/\ req[p].pc = "register_insert"
              /\ req[p].email = e
              /\ RegisterInsert(p))
             => IF UsersByEmail(e) = {}
                  THEN /\ last'.status = 201
                       /\ users \subseteq users'
                       /\ Cardinality(users' \ users) = 1
                       /\ Cardinality(UsersByEmail(e)') = 1
                  ELSE /\ last'.status = 500
                       /\ users' = users]_vars

\* Two register calls for one email both passed the check; the first insert
\* created the user, the second one failed and the email has a single row.
C12_Witness ==
    /\ last.op = "register"
    /\ last.status = 500
    /\ Cardinality(UsersByEmail(last.email)) = 1
    /\ \A p \in Procs : req[p].pc = "idle"

\* C13: with message and block handlers interleaved, no message between a
\* and b is stored once a block row between a and b (in either direction) has
\* been inserted: every step that adds a message row adds it for a pair with
\* no block row, so every message of a blocked pair is older than the block.
C13_NoMessageAfterBlock ==
    [][\A m \in messages' \ messages :
          ~ isBlocked(m.sender_id, m.receiver_id)]_vars

(* ---------------------------- room claims ----------------------------- *)

\* u is a member of room r.
IsMember(r, u) == \E m \in room_members : m.room_id = r /\ m.user_id = u

\* C14: under every interleaving of the create, join and room-message
\* handlers, the sender of every row of room_messages is a member of the
\* row's room; a room message of a user who is not a member of the room
\* answers 403 and adds no row; and a join of a room the user has joined
\* already changes nothing, so that room_members keeps a single row for
\* every pair of room and user.
C14_RoomSenderIsMember ==
    [][/\ \A m \in room_messages' : IsMember(m.room_id, m.sender_id)'
       /\ \A p \in Procs, r \in RoomParams, u \in Ids, c \in Contents :
             (~ IsMember(r, u) /\ RoomMessageCheck(p, r, u, c))
             => /\ last'.op = "room_message"
                /\ last'.status = 403
                /\ last'.user = u
                /\ last'.arg = r
                /\ req'[p].pc = "idle"
                /\ room_messages' = room_messages
       /\ \A p \in Procs, r \in RoomParams, u \in Ids :
             (r \in RoomIds /\ JoinRoom(p, r, u))
             => /\ last'.op = "join"
                /\ last'.status = 200
                /\ Cardinality(MemberRows(r, u)') = 1
                /\ IsMember(r, u) => room_members' = room_members
                /\ room_members \subseteq room_members'
       /\ \A x \in room_members', y \in room_members' :
             (x.room_id = y.room_id /\ x.user_id = y.user_id) => x = y]_vars

\* A user who is not a member of a room posted to it and got 403, while the
\* room holds a message of a member.
C14_Witness ==
    /\ last.op = "room_message"
    /\ last.status = 403
    /\ last.arg \in RoomIds
    /\ ~ IsMember(last.arg, last.user)
    /\ \E m \in room_messages :
          m.room_id = last.arg /\ IsMember(m.room_id, m.sender_id)

====
